---- MODULE Spec2Model ----
(***************************************************************************)
(* gcd: a name -> path index of git repositories (src/main.rs).            *)
(*                                                                         *)
(* A name is a sequence of one-character strings, a path the sequence of   *)
(* the names of its components below "/", so <<>> is "/" itself.  An       *)
(* Option is a sequence of length 0 (None) or 1 (Some).                    *)
(***************************************************************************)
EXTENDS Integers, Sequences, FiniteSets, TLC

VARIABLES
    dirs,      \* the directories of the file system, as paths; "/" included
    regs,      \* the regular files of the file system, as paths
    file,      \* the persisted config.json
    proc       \* the invocations of the tool, one record each

vars == <<dirs, regs, file, proc>>

(* ------------------------------ bounds --------------------------------- *)

\* Longest path the environment creates (components below "/").
MaxDepth == 3

\* Most entries (directories and regular files) the environment creates
\* below "/".
MaxEntries == 4

(* ------------------------------- names --------------------------------- *)

DotGit == <<".", "g", "i", "t">>

NodeModules == <<"n", "o", "d", "e", "_", "m", "o", "d", "u", "l", "e", "s">>

Target == <<"t", "a", "r", "g", "e", "t">>

None == <<>>

Some(v) == <<v>>

Procs == {1, 2}

\* The directory entry names the environment of SpecScan draws from.
ScanNames == {DotGit, NodeModules, Target, <<"a", "b">>}

\* The orders in which read_dir may list the entries of a directory: the
\* order is the operating system's, and the walk does not sort.
ReaddirOrders ==
    { <<DotGit, NodeModules, Target, <<"a", "b">>, <<"a", "c">>, <<"w">>, <<"v">>>>,
      <<<<"v">>, <<"w">>, <<"a", "c">>, <<"a", "b">>, Target, NodeModules, DotGit>> }

(* ------------------------------- paths --------------------------------- *)

\* Path::join with a single component.
Join(path, name) == Append(path, name)

\* Path::parent of a path other than "/".
Parent(path) == SubSeq(path, 1, Len(path) - 1)

\* Path::file_name: the final component, None for "/".
FileName(path) == IF path = <<>> THEN None ELSE Some(path[Len(path)])

\* The entries of directory `path`: what read_dir yields.
Entries(d, r, path) ==
    { q \in d \cup r : Len(q) = Len(path) + 1 /\ Parent(q) = path }

\* Path::is_dir.
IsDir(d, path) == path \in d

(* ------------------------------ the file ------------------------------- *)

EmptyMap == [n \in {} |-> <<>>]

\* A map that keeps the value a key already has (entry().or_insert()).
InsertIfAbsent(m, k, v) ==
    [n \in DOMAIN m \cup {k} |-> IF n \in DOMAIN m THEN m[n] ELSE v]

\* HashMap::insert.
Insert(m, k, v) == [n \in DOMAIN m \cup {k} |-> IF n = k THEN v ELSE m[n]]

Absent == [kind |-> "absent", repos |-> EmptyMap]

\* The file after it was opened with truncation and before any byte is
\* written: it exists and is empty.
Truncated == [kind |-> "truncated", repos |-> EmptyMap]

\* The file holding a proper prefix of a serialized Config: it does not
\* parse, a pretty-printed object ends with its closing brace.
Partial == [kind |-> "partial", repos |-> EmptyMap]

\* The file holding the serialized Config `m`.
Valid(m) == [kind |-> "valid", repos |-> m]

\* A load that reads another path than save writes: it never finds a file.
LoadFromOtherPath(f) == EmptyMap

\* Config::load: an empty map when the file does not exist, and
\* unwrap_or_default (the same empty map) when it does not parse.
Load(f) ==
    IF f.kind # "absent"
    THEN IF f.kind = "valid" THEN f.repos ELSE EmptyMap
    ELSE EmptyMap

(* ------------------------------ the scan ------------------------------- *)

\* A predicate that leaves the build-output directory out.
FilterEntryKeepsTarget(path) ==
    LET name == FileName(path) IN
    \/ name = None
    \/ /\ name[1] # DotGit
       /\ name[1] # NodeModules

\* The filter_entry predicate, on an entry's file name.  walkdir applies it
\* to every entry it yields, the root of the walk (depth 0) included; the
\* file name of "/" is "/" itself, which is none of the three.
FilterEntry(path) ==
    LET name == FileName(path) IN
    \/ name = None
    \/ /\ name[1] # DotGit
       /\ name[1] # NodeModules
       /\ name[1] # Target

\* `s` without the names that are not entries of `path`, as paths.
ListDir(d, r, path, ord) ==
    LET present == { q[Len(q)] : q \in Entries(d, r, path) }
        names == SelectSeq(ord, LAMBDA n : n \in present)
    IN  [i \in 1..Len(names) |-> Join(path, names[i])]

RECURSIVE Walk(_, _, _, _)
RECURSIVE WalkAll(_, _, _, _)
\* WalkDir::new(path).follow_links(true).into_iter().filter_entry(..): the
\* entries yielded, in order.  An entry that fails the predicate is not
\* yielded and, when a directory, not descended into; a directory is
\* yielded before its contents.
Walk(d, r, path, ord) ==
    IF ~FilterEntry(path)
    THEN <<>>
    ELSE IF IsDir(d, path)
         THEN <<path>> \o WalkAll(d, r, ListDir(d, r, path, ord), ord)
         ELSE <<path>>

WalkAll(d, r, paths, ord) ==
    IF paths = <<>>
    THEN <<>>
    ELSE Walk(d, r, Head(paths), ord) \o WalkAll(d, r, Tail(paths), ord)

\* find_git_repos: the walked entries that are directories with a .git
\* directory in them.  A root that does not exist makes the walk yield one
\* Err, which the loop skips.
find_git_repos(d, r, path, ord) ==
    IF path \notin d \cup r
    THEN <<>>
    ELSE SelectSeq(Walk(d, r, path, ord),
                   LAMBDA e : IsDir(d, e) /\ IsDir(d, Join(e, DotGit)))

\* The insert loop of the Index branch: each discovered path is stored
\* under its file name, in the order discovered.
RECURSIVE build(_, _)
build(existing, discovered) ==
    IF discovered = <<>>
    THEN existing
    ELSE build(Insert(existing, FileName(Head(discovered))[1], Head(discovered)),
               Tail(discovered))

(* ----------------------------- the matcher ----------------------------- *)

\* SkimMatcherV2::default(): the weights of the score.
ScoreMatch == 16

GapStart == -3

GapExtension == -1

BonusHead == 8

BonusConsecutive == 4

PenaltyCaseMismatch == -2

IsUpper(c) == c \in {"A", "B", "C"}

Lower(c) == CASE c = "A" -> "a" [] c = "B" -> "b" [] c = "C" -> "c" [] OTHER -> c

\* Smart case: a pattern with an upper-case character matches exactly, any
\* other pattern matches ignoring case.
CharMatches(c, p, exact) == IF exact THEN c = p ELSE Lower(c) = Lower(p)

RECURSIVE Sum(_, _)
Sum(f, n) == IF n = 0 THEN 0 ELSE f[n] + Sum(f, n - 1)

Max(S) == CHOOSE x \in S : \A y \in S : y <= x

\* The score of matching pattern[j] at choice[pos[j]] for every j: each
\* matched character scores, a match at the head of the choice and a match
\* right after the previous one earn a bonus, skipped characters before a
\* match and a difference of case cost.
AlignScore(choice, pattern, pos) ==
    LET gap(j) == IF j = 1 THEN pos[1] - 1 ELSE pos[j] - pos[j - 1] - 1
        one(j) ==
            ScoreMatch
            + (IF pos[j] = 1 THEN BonusHead ELSE 0)
            + (IF j > 1 /\ gap(j) = 0 THEN BonusConsecutive ELSE 0)
            + (IF gap(j) > 0 THEN GapStart + (gap(j) - 1) * GapExtension ELSE 0)
            + (IF choice[pos[j]] # pattern[j] THEN PenaltyCaseMismatch ELSE 0)
    IN  Sum([j \in 1..Len(pattern) |-> one(j)], Len(pattern))

\* matcher.fuzzy_match(name, &pattern): None unless the characters of the
\* pattern occur in the choice in order, else the best score over the ways
\* they do.  The empty pattern matches every choice with score 0.
fuzzy_match(choice, pattern) ==
    IF pattern = <<>>
    THEN Some(0)
    ELSE LET exact == \E j \in 1..Len(pattern) : IsUpper(pattern[j])
             ways == { pos \in [1..Len(pattern) -> 1..Len(choice)] :
                         /\ \A j \in 1..Len(pattern) :
                              CharMatches(choice[pos[j]], pattern[j], exact)
                         /\ \A j \in 2..Len(pattern) : pos[j - 1] < pos[j] }
         IN  IF ways = {}
             THEN None
             ELSE Some(Max({ AlignScore(choice, pattern, pos) : pos \in ways }))

(* ----------------------------- the lookup ------------------------------ *)

\* The orders in which a HashMap with keys `S` may be iterated: the order
\* follows the hasher's random seed, which every process draws afresh.
IterOrders(S) ==
    { o \in [1..Cardinality(S) -> S] :
        \A i, j \in 1..Cardinality(S) : i # j => o[i] # o[j] }

\* The comparator with its operands exchanged: a.0.cmp(&b.0) is Less.
SortsBeforeAscending(a, b) == a[1] < b[1]

\* The comparator of matches.sort_by: b.0.cmp(&a.0) is Less.
SortsBefore(a, b) == b[1] < a[1]

\* matches.sort_by(..): the sort is stable, equal scores keep their order.
RECURSIVE sort_by(_)
sort_by(s) ==
    IF s = <<>>
    THEN <<>>
    ELSE LET rest == sort_by(SubSeq(s, 1, Len(s) - 1))
             e == s[Len(s)]
             k == Cardinality({ i \in 1..Len(rest) : ~SortsBefore(e, rest[i]) })
         IN  SubSeq(rest, 1, k) \o <<e>> \o SubSeq(rest, k + 1, Len(rest))

\* config.repos.iter().filter_map(..).collect(): (score, name, path) of the
\* names that match, in the order the map is iterated.
Matches(repos, pattern, order) ==
    LET hit(n) == fuzzy_match(n, pattern) # None
        names == SelectSeq(order, hit)
    IN  [i \in 1..Len(names) |->
            <<fuzzy_match(names[i], pattern)[1], names[i], repos[names[i]]>>]

\* The pattern branch of main: the path of the first match after sorting,
\* None when nothing matches.
resolve(repos, pattern, order) ==
    LET matches == sort_by(Matches(repos, pattern, order))
    IN  IF matches = <<>> THEN None ELSE Some(matches[1][3])

(* --------------------------- one invocation ---------------------------- *)

\* An invocation that was not started.  The last five fields are history:
\* the file when the invocation started, the file as load found it (an
\* Option), the map load returned, the invocations that had completed when
\* this one loaded, and where the invocation was when it was killed.
Idle ==
    [pc |-> "idle", kind |-> "none", root |-> <<>>, pattern |-> <<>>,
     config |-> EmptyMap, repos |-> <<>>,
     walked |-> FALSE, result |-> None, msg |-> "", code |-> "running",
     file0 |-> Absent, seen |-> None, loaded |-> EmptyMap, after |-> {},
     at |-> "nowhere"]

Running(p) == proc[p].pc \notin {"idle", "done", "failed", "killed"}

Ended(p) == proc[p].pc \in {"done", "failed", "killed"}

Set(p, r) == proc' = [proc EXCEPT ![p] = r]

\* Cli::parse: the command line of invocation p.
Invoke(p, kind, root, pattern) ==
    /\ proc[p].pc = "idle"
    /\ Set(p, [proc[p] EXCEPT !.pc = "load", !.kind = kind, !.root = root,
                              !.pattern = pattern, !.file0 = file])
    /\ UNCHANGED <<dirs, regs, file>>

\* A load that unwraps the parse result: a file that does not parse ends
\* the invocation.
LoadConfigUnwrap(p) ==
    /\ proc[p].pc = "load"
    /\ IF file.kind \in {"truncated", "partial"}
       THEN Set(p, [proc[p] EXCEPT !.pc = "failed", !.code = "panic",
                      !.msg = "Failed to parse config", !.seen = Some(file)])
       ELSE Set(p, [proc[p] EXCEPT !.pc = "run", !.config = Load(file),
                      !.loaded = Load(file), !.seen = Some(file),
                      !.after = { q \in Procs : proc[q].pc = "done" }])
    /\ UNCHANGED <<dirs, regs, file>>

\* let mut config = Config::load();
LoadConfig(p) ==
    /\ proc[p].pc = "load"
    /\ Set(p, [proc[p] EXCEPT !.pc = "run", !.config = Load(file),
                              !.loaded = Load(file), !.seen = Some(file),
                              !.after = { q \in Procs : proc[q].pc = "done" }])
    /\ UNCHANGED <<dirs, regs, file>>

\* A root that is used as given when it cannot be resolved.
CanonicalizeLenient(p) ==
    /\ proc[p].pc = "run"
    /\ proc[p].kind = "index"
    /\ Set(p, [proc[p] EXCEPT !.pc = "scan"])
    /\ UNCHANGED <<dirs, regs, file>>

\* path.canonicalize().expect("Invalid path"): the path must exist.
Canonicalize(p) ==
    /\ proc[p].pc = "run"
    /\ proc[p].kind = "index"
    /\ IF proc[p].root \in dirs \cup regs
       THEN Set(p, [proc[p] EXCEPT !.pc = "scan"])
       ELSE Set(p, [proc[p] EXCEPT !.pc = "failed", !.msg = "Invalid path",
                                   !.code = "panic"])
    /\ UNCHANGED <<dirs, regs, file>>

\* let repos = find_git_repos(&path);
Scan(p) ==
    /\ proc[p].pc = "scan"
    /\ \E ord \in ReaddirOrders :
         Set(p, [proc[p] EXCEPT !.pc = "merge", !.walked = TRUE,
                   !.repos = find_git_repos(dirs, regs, proc[p].root, ord)])
    /\ UNCHANGED <<dirs, regs, file>>

\* A merge that saves after every insert: the file is written before the
\* save step.
MergeSavingEachInsert(p) ==
    /\ proc[p].pc = "merge"
    /\ IF \E i \in 1..Len(proc[p].repos) : FileName(proc[p].repos[i]) = None
       THEN /\ Set(p, [proc[p] EXCEPT !.pc = "failed", !.code = "panic",
                         !.msg = "unwrap on None"])
            /\ file' = file
       ELSE /\ Set(p, [proc[p] EXCEPT !.pc = "save",
                         !.config = build(proc[p].config, proc[p].repos)])
            /\ file' = Valid(build(proc[p].config, proc[p].repos))
    /\ UNCHANGED <<dirs, regs>>

\* A merge into a fresh map: what was loaded and not found again is dropped.
MergeReplacing(p) ==
    /\ proc[p].pc = "merge"
    /\ IF \E i \in 1..Len(proc[p].repos) : FileName(proc[p].repos[i]) = None
       THEN Set(p, [proc[p] EXCEPT !.pc = "failed", !.code = "panic",
                      !.msg = "unwrap on None"])
       ELSE Set(p, [proc[p] EXCEPT !.pc = "save",
                      !.config = build(EmptyMap, proc[p].repos)])
    /\ UNCHANGED <<dirs, regs, file>>

\* for repo in repos { .. config.repos.insert(name, repo); }: file_name()
\* is None for "/", and unwrap() then panics.
Merge(p) ==
    /\ proc[p].pc = "merge"
    /\ IF \E i \in 1..Len(proc[p].repos) : FileName(proc[p].repos[i]) = None
       THEN Set(p, [proc[p] EXCEPT !.pc = "failed", !.code = "panic",
                      !.msg = "unwrap on None"])
       ELSE Set(p, [proc[p] EXCEPT !.pc = "save",
                      !.config = build(proc[p].config, proc[p].repos)])
    /\ UNCHANGED <<dirs, regs, file>>

\* config.save() returns an error and expect("Failed to save config")
\* panics: create_dir_all or the opening of the file fails, with the file
\* as it was, or a write fails, with the file as written so far.
SaveError(p) ==
    /\ proc[p].pc \in {"save", "write", "write_rest"}
    /\ Set(p, [proc[p] EXCEPT !.pc = "failed", !.code = "panic",
                              !.msg = "Failed to save config"])
    /\ UNCHANGED <<dirs, regs, file>>

\* std::fs::write, first part: the file is created, or truncated when it
\* exists.
SaveOpen(p) ==
    /\ proc[p].pc = "save"
    /\ file' = Truncated
    /\ Set(p, [proc[p] EXCEPT !.pc = "write"])
    /\ UNCHANGED <<dirs, regs>>

\* std::fs::write, write_all: a first part of the contents is in the file.
SaveWriteSome(p) ==
    /\ proc[p].pc = "write"
    /\ file' = Partial
    /\ Set(p, [proc[p] EXCEPT !.pc = "write_rest"])
    /\ UNCHANGED <<dirs, regs>>

\* std::fs::write, write_all: the rest of the contents is in the file.  The
\* contents land whole: the bytes of two writers at once are not mixed.
SaveWriteRest(p) ==
    /\ proc[p].pc = "write_rest"
    /\ file' = Valid(proc[p].config)
    /\ Set(p, [proc[p] EXCEPT !.pc = "print"])
    /\ UNCHANGED <<dirs, regs>>

\* println!("Indexed repositories successfully");
PrintIndexed(p) ==
    /\ proc[p].pc = "print"
    /\ Set(p, [proc[p] EXCEPT !.pc = "done", !.code = "ok",
                              !.msg = "Indexed repositories successfully"])
    /\ UNCHANGED <<dirs, regs, file>>

\* The pattern branch: print the path of the best match, or report that
\* there is none and exit with status 1.
Lookup(p) ==
    /\ proc[p].pc = "run"
    /\ proc[p].kind = "lookup"
    /\ \E order \in IterOrders(DOMAIN proc[p].config) :
         LET found == resolve(proc[p].config, proc[p].pattern, order) IN
         IF found # None
         THEN Set(p, [proc[p] EXCEPT !.pc = "done", !.code = "ok",
                                     !.result = found])
         ELSE Set(p, [proc[p] EXCEPT !.pc = "done", !.code = "exit 1",
                        !.msg = "No matching repository found"])
    /\ UNCHANGED <<dirs, regs, file>>

\* No subcommand and no pattern: the entries of the index are printed.
List(p) ==
    /\ proc[p].pc = "run"
    /\ proc[p].kind = "list"
    /\ Set(p, [proc[p] EXCEPT !.pc = "done", !.code = "ok",
                              !.msg = "Available repositories:"])
    /\ UNCHANGED <<dirs, regs, file>>

\* The process is killed.
Kill(p) ==
    /\ Running(p)
    /\ Set(p, [proc[p] EXCEPT !.pc = "killed", !.code = "killed",
                              !.at = proc[p].pc])
    /\ UNCHANGED <<dirs, regs, file>>

\* The steps of an invocation once it is started.
Step(p) ==
    \/ LoadConfig(p)
    \/ Canonicalize(p)
    \/ Scan(p)
    \/ Merge(p)
    \/ SaveOpen(p)
    \/ SaveWriteSome(p)
    \/ SaveWriteRest(p)
    \/ PrintIndexed(p)

(* ------------------- the index and the lookup, Spec -------------------- *)

\* The file system of Spec: the repositories w/ab, w/ac, v/ab and v/w/ab,
\* a repository w/target with a repository w/target/ab inside it, a
\* repository below v/node_modules, and the plain directory u.
StoreDirs ==
    LET w == <<"w">>
        v == <<"v">>
        ab == <<"a", "b">>
        ac == <<"a", "c">>
    IN  { <<>>, <<w>>, <<v>>, <<<<"u">>>>,
          <<w, ab>>, <<w, ab, DotGit>>, <<w, ac>>, <<w, ac, DotGit>>,
          <<v, ab>>, <<v, ab, DotGit>>,
          <<v, w>>, <<v, w, ab>>, <<v, w, ab, DotGit>>,
          <<v, NodeModules>>, <<v, NodeModules, ac>>,
          <<v, NodeModules, ac, DotGit>>,
          <<w, Target>>, <<w, Target, DotGit>>,
          <<w, Target, ab>>, <<w, Target, ab, DotGit>> }

\* The directories an index command of Spec names; <<"z">> does not exist.
StoreRoots ==
    { <<<<"w">>>>, <<<<"v">>>>, <<<<"u">>>>, <<<<"z">>>>,
      <<<<"w">>, <<"a", "b">>>> }

\* The patterns a lookup of Spec names.
Patterns == { <<>>, <<"a">>, <<"b">>, <<"a", "c">>, <<"z">> }

\* The maps the file of Spec may hold at the start.
StoreMaps ==
    { EmptyMap,
      [n \in {<<"a", "b">>} |-> <<<<"o">>, n>>],
      [n \in {<<"a", "b">>, <<"b", "a">>} |-> <<<<"o">>, n>>],
      [n \in {<<"a", "b">>, <<"a", "c">>} |-> <<<<"o">>, n>>] }

Init ==
    /\ dirs = StoreDirs
    /\ regs = {}
    /\ file \in {Absent, Truncated, Partial} \cup { Valid(m) : m \in StoreMaps }
    /\ proc = [p \in Procs |-> Idle]

InvokeIndex(p) == \E root \in StoreRoots : Invoke(p, "index", root, <<>>)

InvokeLookup(p) == \E pattern \in Patterns : Invoke(p, "lookup", <<>>, pattern)

InvokeList(p) == Invoke(p, "list", <<>>, <<>>)

Next ==
    \E p \in Procs :
        \/ InvokeIndex(p)
        \/ InvokeLookup(p)
        \/ InvokeList(p)
        \/ Step(p)
        \/ Lookup(p)
        \/ List(p)
        \/ SaveError(p)
        \/ Kill(p)

Spec == Init /\ [][Next]_vars

(* --------------------------- the scan, SpecScan ------------------------ *)

\* The environment creates a directory.
Mkdir(path) ==
    /\ \A p \in Procs : proc[p].pc = "idle"
    /\ Cardinality(dirs) - 1 + Cardinality(regs) < MaxEntries
    /\ Len(path) <= MaxDepth
    /\ path \notin dirs \cup regs
    /\ dirs' = dirs \cup {path}
    /\ UNCHANGED <<regs, file, proc>>

\* The environment creates a regular file (a .git file, as a worktree or a
\* submodule has, is the one the scan can tell from a directory).
Mkreg(path) ==
    /\ \A p \in Procs : proc[p].pc = "idle"
    /\ Cardinality(dirs) - 1 + Cardinality(regs) < MaxEntries
    /\ Len(path) <= MaxDepth
    /\ path \notin dirs \cup regs
    /\ regs' = regs \cup {path}
    /\ UNCHANGED <<dirs, file, proc>>

InitScan ==
    /\ dirs = {<<>>}
    /\ regs = {}
    /\ file = Absent
    /\ proc = [p \in Procs |-> Idle]

\* An index command on "/", on an existing path or on one that does not
\* exist.
InvokeScan ==
    \E root \in dirs \cup regs \cup {<<<<"z">>>>} : Invoke(1, "index", root, <<>>)

NextScan ==
    \/ \E parent \in dirs : \E name \in ScanNames : Mkdir(Join(parent, name))
    \/ \E parent \in dirs : Mkreg(Join(parent, DotGit))
    \/ InvokeScan
    \/ Step(1)

SpecScan == InitScan /\ [][NextScan]_vars

(* ------------------------------ the claims ----------------------------- *)

Pruned == {DotGit, NodeModules, Target}

Leaf(path) == path[Len(path)]

Range(s) == { s[i] : i \in 1..Len(s) }

\* The paths invocation p discovered.
Reported(p) == Range(proc[p].repos)

\* d is the directory `root` or lies below it.
UnderRoot(root, d) == Len(root) <= Len(d) /\ SubSeq(d, 1, Len(root)) = root

\* d is a directory with a .git directory in it.
HasMarker(d) == d \in dirs /\ Join(d, DotGit) \in dirs

\* d lies inside a directory, at or below `root`, with a pruned name.
InsidePruned(root, d) ==
    \E k \in Len(root)..(Len(d) - 1) : k >= 1 /\ d[k] \in Pruned

\* d, or a directory from `root` down to d, has a pruned name.
OnPrunedWay(root, d) ==
    \E k \in Len(root)..Len(d) : k >= 1 /\ d[k] \in Pruned

PostMerge == {"save", "write", "write_rest", "print", "done"}

\* Invocation p is an index operation whose insert loop has run.
Merged(p) ==
    /\ proc[p].kind = "index"
    /\ \/ proc[p].pc \in PostMerge
       \/ proc[p].pc = "killed" /\ proc[p].at \in PostMerge
       \/ proc[p].pc = "failed" /\ proc[p].msg = "Failed to save config"

\* Invocation p is a lookup that has ended.
LookedUp(p) == proc[p].kind = "lookup" /\ proc[p].pc = "done"

\* No other invocation was started.
Alone(p) == \A q \in Procs \ {p} : proc[q].pc = "idle"

\* The last path among those invocation p discovered that has leaf name n.
LastWith(p, n) ==
    LET r == proc[p].repos
        last == Max({ i \in 1..Len(r) : Leaf(r[i]) = n })
    IN  r[last]

\* The names of `repos` that match the pattern, and their scores.
Hits(repos, pattern) ==
    { n \in DOMAIN repos : fuzzy_match(n, pattern) # None }

Score(n, pattern) == fuzzy_match(n, pattern)[1]

\* C1: two lookups that loaded the same index and name the same query (one
\* that is not empty, here) end with the same result: the same path, or
\* both no match.
C1_ResolveDeterministic ==
    \A p, q \in Procs :
        ( /\ LookedUp(p)
          /\ LookedUp(q)
          /\ proc[p].pattern # <<>>
          /\ proc[p].loaded = proc[q].loaded
          /\ proc[p].pattern = proc[q].pattern )
        => proc[p].result = proc[q].result

\* C2, as claimed: after an index operation was killed, at whatever point,
\* with no other invocation around, a load returns the mapping that was
\* persisted when the operation started.
C2_KilledLeavesMapping ==
    \A p \in Procs :
        (proc[p].kind = "index" /\ proc[p].pc = "killed" /\ Alone(p))
        => Load(file) = Load(proc[p].file0)

\* C2, amended: an index operation killed before save opens the file
\* leaves the file as it was when the operation started; killed after the
\* file was opened and before the write completed, it leaves a file that
\* is empty or partial, from which load returns the empty mapping; killed
\* after the write, it leaves its own mapping.
C2_KilledBeforeWriteLeavesFile ==
    \A p \in Procs :
        (proc[p].kind = "index" /\ proc[p].pc = "killed" /\ Alone(p))
        => /\ proc[p].at \in {"load", "run", "scan", "merge", "save"}
                => file = proc[p].file0
           /\ proc[p].at \in {"write", "write_rest"}
                => file \in {Truncated, Partial} /\ Load(file) = EmptyMap
           /\ proc[p].at = "print" => file = Valid(proc[p].config)

\* An index operation killed between its merge and its save: the file still
\* holds the old mapping, and the update it had computed is lost.
C2_Witness ==
    \E p \in Procs :
        /\ proc[p].kind = "index" /\ proc[p].pc = "killed" /\ Alone(p)
        /\ proc[p].at = "save"
        /\ proc[p].file0.kind = "valid" /\ proc[p].file0.repos # EmptyMap
        /\ proc[p].config # proc[p].loaded
        /\ file = proc[p].file0

\* C3, as claimed: the scan reports every directory at or below the root
\* that has a .git directory in it, and no directory inside a directory
\* (at or below the root) named .git, node_modules or target.  Stated here
\* for the roots whose own name is none of the three.
C3_ScanFindsEveryRepository ==
    \A p \in Procs :
        (proc[p].walked /\ ~OnPrunedWay(proc[p].root, proc[p].root))
        => /\ \A d \in dirs :
                (UnderRoot(proc[p].root, d) /\ HasMarker(d)) => d \in Reported(p)
           /\ \A d \in Reported(p) : ~InsidePruned(proc[p].root, d)

\* C3, amended: the scan reports, once each, exactly the directories at or
\* below the root that have a .git directory in them and that neither are,
\* nor lie inside, a directory named .git, node_modules or target, the
\* root's own name counted.
C3_ScanFindsUnprunedRepositories ==
    \A p \in Procs :
        proc[p].walked
        => /\ Reported(p) =
                { d \in dirs : /\ UnderRoot(proc[p].root, d)
                               /\ HasMarker(d)
                               /\ ~OnPrunedWay(proc[p].root, d) }
           /\ Len(proc[p].repos) = Cardinality(Reported(p))

\* A scan that reported a repository below its root and left out another
\* one, which has a pruned name or lies inside a directory that has.
C3_Witness ==
    \E p \in Procs :
        /\ proc[p].walked
        /\ \E d \in Reported(p) : Len(d) > Len(proc[p].root)
        /\ \E d \in dirs :
             /\ UnderRoot(proc[p].root, d) /\ HasMarker(d)
             /\ d \notin Reported(p)

\* C4: when the root of an index operation has a .git directory in it, the
\* scan reports the root, and the operation, once completed, has stored an
\* entry under the root's name in the file: the root itself, unless a later
\* discovered path has the same name.
C4_RootRepositoryIndexed ==
    \A p \in Procs :
        (proc[p].kind = "index" /\ HasMarker(proc[p].root))
        => /\ proc[p].walked => proc[p].root \in Reported(p)
           /\ proc[p].pc = "done"
                => /\ proc[p].root # <<>>
                   /\ Leaf(proc[p].root) \in DOMAIN file.repos
                   /\ file.repos[Leaf(proc[p].root)] = LastWith(p, Leaf(proc[p].root))

\* C5: after the merge of an index operation, every entry of the loaded
\* index whose name is the leaf name of no discovered path is present with
\* its path unchanged, and nothing discovered leaves the index as loaded.
C5_MergeAdditive ==
    \A p \in Procs :
        Merged(p)
        => /\ \A n \in DOMAIN proc[p].loaded :
                n \notin { Leaf(r) : r \in Reported(p) }
                => /\ n \in DOMAIN proc[p].config
                   /\ proc[p].config[n] = proc[p].loaded[n]
           /\ proc[p].repos = <<>> => proc[p].config = proc[p].loaded

\* An index operation, completed, that discovered a repository and kept an
\* entry it had loaded under another name.
C5_Witness ==
    \E p \in Procs :
        /\ proc[p].kind = "index" /\ proc[p].pc = "done"
        /\ proc[p].repos # <<>>
        /\ \E n \in DOMAIN proc[p].loaded :
             /\ n \notin { Leaf(r) : r \in Reported(p) }
             /\ proc[p].config[n] = proc[p].loaded[n]

\* C6: after the merge of an index operation, every discovered leaf name
\* maps to the last discovered path with that leaf name, and the index
\* holds the loaded and the discovered names, each once.
C6_LastPathWins ==
    \A p \in Procs :
        Merged(p)
        => /\ \A r \in Reported(p) :
                /\ Leaf(r) \in DOMAIN proc[p].config
                /\ proc[p].config[Leaf(r)] = LastWith(p, Leaf(r))
           /\ DOMAIN proc[p].config =
                DOMAIN proc[p].loaded \cup { Leaf(r) : r \in Reported(p) }

\* An index operation that discovered two paths with the same leaf name.
C6_Witness ==
    \E p \in Procs :
        /\ Merged(p)
        /\ \E i, j \in 1..Len(proc[p].repos) :
             /\ i < j
             /\ Leaf(proc[p].repos[i]) = Leaf(proc[p].repos[j])
             /\ proc[p].config[Leaf(proc[p].repos[i])] = proc[p].repos[j]

LoadedNothing(p) == proc[p].seen # None /\ proc[p].seen[1].kind # "valid"

\* No failure comes from load, load returns the file's mapping or the empty
\* one, and an invocation that loaded the empty one goes on with it.
C8_Continues ==
    \A p \in Procs :
        /\ proc[p].pc = "failed"
             => /\ proc[p].kind = "index"
                /\ proc[p].msg \in {"Invalid path", "unwrap on None",
                                    "Failed to save config"}
        /\ proc[p].seen # None
             => proc[p].loaded = (IF proc[p].seen[1].kind = "valid"
                                  THEN proc[p].seen[1].repos
                                  ELSE EmptyMap)
        /\ (LoadedNothing(p) /\ LookedUp(p))
             => proc[p].result = None /\ proc[p].code = "exit 1"
        /\ (LoadedNothing(p) /\ Merged(p))
             => DOMAIN proc[p].config = { Leaf(r) : r \in Reported(p) }

\* A step of load leaves the file alone and takes the invocation on.
C8_LoadKeepsFile ==
    \A p \in Procs :
        (proc[p].pc = "load" /\ proc'[p].pc # "load" /\ proc'[p].pc # "killed")
        => file' = file /\ proc'[p].pc = "run"

\* C8: load never fails the invocation: from a file that is missing, empty
\* or does not parse it returns the empty index and the invocation goes
\* on (a lookup then ends with no match, an index operation then holds and
\* saves the discovered entries only), and load does not change the file.
C8_LoadNeverFails == []C8_Continues /\ [][C8_LoadKeepsFile]_vars

\* An index operation that loaded from a file that does not parse and
\* completed, leaving the discovered entries in the file.
C8_Witness ==
    \E p \in Procs :
        /\ proc[p].kind = "index" /\ proc[p].pc = "done"
        /\ proc[p].seen # None /\ proc[p].seen[1].kind \in {"truncated", "partial"}
        /\ proc[p].repos # <<>>
        /\ file = Valid(proc[p].config)

\* The discovered paths of invocation p that the file has no entry for.
Lost(p) == { r \in Reported(p) : Leaf(r) \notin DOMAIN file.repos }

\* C9: when an index operation loads after another one has completed, and
\* completes, no discovered entry is lost: the file holds every leaf name
\* either discovered, with the later operation's path for the names it
\* discovered and the earlier one's path for the others.
C9_SequentialKeepsEntries ==
    \A p, q \in Procs :
        ( /\ p # q
          /\ proc[p].kind = "index" /\ proc[p].pc = "done"
          /\ proc[q].kind = "index" /\ proc[q].pc = "done"
          /\ q \in proc[p].after )
        => /\ file.kind = "valid"
           /\ Lost(p) = {} /\ Lost(q) = {}
           /\ \A r \in Reported(p) : file.repos[Leaf(r)] = LastWith(p, Leaf(r))
           /\ \A r \in Reported(q) :
                Leaf(r) \notin { Leaf(x) : x \in Reported(p) }
                => file.repos[Leaf(r)] = LastWith(q, Leaf(r))

\* C9, the race: two index operations ran interleaved, both completed, and
\* the file holds the mapping of the one that wrote last, without an entry
\* the other one discovered.
C9_Witness ==
    \E p, q \in Procs :
        /\ p # q
        /\ proc[p].kind = "index" /\ proc[p].pc = "done"
        /\ proc[q].kind = "index" /\ proc[q].pc = "done"
        /\ p \notin proc[q].after /\ q \notin proc[p].after
        /\ file = Valid(proc[q].config)
        /\ Lost(p) # {}

\* C10: an index operation whose root does not exist ends in the failure
\* "Invalid path" when it resolves the root: it walks nothing, discovers
\* nothing, prints no success and leaves the file as it was.
C10_InvalidRootAborts ==
    \A p \in Procs :
        ( /\ proc[p].kind = "index"
          /\ proc[p].root \notin dirs \cup regs
          /\ proc[p].pc \notin {"idle", "load", "run"} )
        => /\ proc[p].pc = "failed"
           /\ proc[p].msg = "Invalid path"
           /\ proc[p].code = "panic"
           /\ ~proc[p].walked
           /\ proc[p].repos = <<>>
           /\ file = proc[p].file0

\* An index operation on a root that does not exist, failed, beside a file
\* system that holds a repository.
C10_Witness ==
    \E p \in Procs :
        /\ proc[p].kind = "index"
        /\ proc[p].root \notin dirs \cup regs
        /\ proc[p].pc = "failed"
        /\ \E d \in dirs : HasMarker(d)

====
